---- MODULE Spec2Model ----
(***************************************************************************)
(* State-machine model of the imageset run of fpe_pii_detector:            *)
(* detect_fpe_imageset.run(), the two schedulers it calls                  *)
(* (process_images_in_sequence, process_images_in_parallel), the worker    *)
(* tasks (process_image on a ThreadPoolExecutor) and the collaborators it  *)
(* drives (status update, S3 write, database write).                       *)
(*                                                                         *)
(* Every external call (database, S3, detector load, detect) either        *)
(* returns or raises; which one is a nondeterministic choice.              *)
(***************************************************************************)
EXTENDS Integers, Sequences, FiniteSets, TLC

\* ------------------------------------------------------------- bounds
MaxImages == 5      \* the images table returns 0..MaxImages rows
MaxWorkers == 2     \* --workers ranges over None, -1..MaxWorkers
MaxBatch == 3       \* --batch-size ranges over -1..MaxBatch
MaxRows == 2        \* result lists handed to save_results_to_database alone
MaxCalls == 2       \* calls of save_results_to_database in one process
MaxDetections == 2  \* raw detections in one detector output

VARIABLES
    args,            \* argparse.Namespace: dry_run, workers, batch_size
    pc,              \* position of the coordinating thread inside run()
    imageset,        \* local `imageset` of run(): <<>> unbound, <<row>> bound
    df_images,       \* local `df_images`: <<>> unbound, <<rows>> the fetched rows
    detector,        \* local `detector`: <<>> unbound, <<"model">> loaded
    results,         \* the scheduler's `results` list
    seq_idx,         \* process_images_in_sequence: rows already iterated
    batch_size,      \* process_images_in_parallel parameter (after min())
    workers,         \* process_images_in_parallel parameter (after min())
    batch_start,     \* loop variable of the batch loop
    futures,         \* `futures` of the current executor: submitted positions
    task,            \* per row position: state of its future
    yielded,         \* positions already yielded by as_completed
    completed,       \* per-batch counter
    total_completed, \* per-run counter
    batchLog,        \* the `futures` lists of the batches already drained
    error,           \* exception in flight / cause of the failure ("" = none)
    ret,             \* return value of run(): <<>> none yet, <<0>>, <<1>>
    pii_status,      \* imagesets.pii_status as committed in the database
    statusWrites,    \* calls of update_imageset_pii_status: [status, ok]
    s3Calls,         \* calls of save_results_to_s3: [data, ok]
    dbCalls,         \* calls of save_results_to_database: [data, ok]
    called,          \* per row position: number of detect_image calls
    printed,         \* json.dumps(results) logged by the dry run: <<>> or <<results>>
    logged,          \* run()'s log records that carry a result count, and its error record
    images,          \* the images table as committed: image id -> pii_* columns
    pii_results,     \* the TEMPORARY table of the pooled session: <<>> absent, <<rows>>
    conn,            \* the open connection of save_results_to_database and its
                     \* uncommitted transaction
    db_log,          \* calls of save_results_to_database that have ended
    runs,            \* what earlier runs on this imageset left: per-image outcomes, image rows
    md_results,      \* a detector output handed to convert_md_detections_to_fpe_format
    fpe_result,      \* what that call produced: <<>> before the call
    other_run        \* a second process running run() on the same imageset:
                     \* its position and its calls of update_imageset_pii_status

vars == <<args, pc, imageset, df_images, detector, results, seq_idx, batch_size,
          workers, batch_start, futures, task, yielded, completed,
          total_completed, batchLog, error, ret, pii_status, statusWrites, s3Calls,
          dbCalls, called, printed, logged, images, pii_results, conn, db_log, runs,
          md_results, fpe_result, other_run>>

schedVars == <<results, seq_idx, batch_size, workers, batch_start, futures,
               task, yielded, completed, total_completed, batchLog, called>>
sinkVars == <<s3Calls, dbCalls, printed, logged>>
dbVars == <<images, pii_results, conn, db_log>>
convVars == <<md_results, fpe_result>>
runVars == <<args, pc, imageset, df_images, detector, error, ret, pii_status,
             statusWrites, runs>>

\* ------------------------------------------------------------- data
\* --workers: default None (<<>>), else an int (<<w>>)
WorkerArgs == {<<>>} \cup {<<w>> : w \in -1..MaxWorkers}
\* --batch-size: any int the command line accepts
BatchArgs == -1..MaxBatch

\* A row of the images table at source position i: its id and its S3 locator.
\* Path components are numbers; the key has a directory and a file component.
Row(i) == [id |-> 10 + i,
           full_s3 |-> [Bucket |-> 1, Key |-> <<2, 100 + i>>]]

\* f"s3://{bucket}/{key}" as its sequence of path components
s3_filename(row) == <<row.full_s3.Bucket>> \o row.full_s3.Key

\* os.path.basename: the last path component
basename(path) == path[Len(path)]

\* detect_image on success: the FPE-format dictionary for the image (the
\* detector is opaque: an image without detections)
detect_image(filename) ==
    [detections |-> <<>>,
     max_conf |-> [animal |-> 0, person |-> 0, vehicle |-> 0]]

\* Mutant of process_image: file is the first component of the key instead of
\* the last one.
process_image_dirname(row) ==
    LET result == detect_image(s3_filename(row))
    IN  [detections |-> result.detections,
         max_conf |-> result.max_conf,
         image_id |-> row.id,
         file |-> row.full_s3.Key[1]]

\* process_image on success: detect_image's result plus image_id and file
process_image(row) ==
    LET result == detect_image(s3_filename(row))
    IN  [detections |-> result.detections,
         max_conf |-> result.max_conf,
         image_id |-> row.id,
         file |-> basename(s3_filename(row))]

\* the fetched rows, in source order; len(df_images)
rows == IF df_images = <<>> THEN <<>> ELSE df_images[1]
n_images == Len(rows)

\* range(0, n_images, batch_size): the batch starts (batch_size # 0)
BatchStarts(n, b) ==
    IF b > 0 THEN {s \in 0..(n - 1) : s % b = 0} ELSE {}

\* Mutant of batch_end: the batch is not cut at batch_size, every remaining
\* row is submitted.
batch_end_unbatched == n_images

\* min(batch_start + batch_size, n_images)
batch_end == IF batch_start + batch_size < n_images
             THEN batch_start + batch_size ELSE n_images

Min(a, b) == IF a < b THEN a ELSE b

Running == {i \in DOMAIN task : task[i] = "running"}
Pending == {i \in DOMAIN task : task[i] = "pending"}
Done(i) == task[i] \in {"returned", "raised"}

\* ------------------------------------------------------------- database
\* ids of the rows of the images table: the images of the imageset and a row
\* of another imageset, whose id (images.id is a serial column) is 1
ImageIds == {Row(i).id : i \in 1..MaxImages} \cup {1}

\* pii_animal, pii_person, pii_vehicle (Float) and pii_detections (JSON,
\* held as <<document>>) of a row never written: NULL (-1, <<>>)
NullPii == [pii_animal |-> -1, pii_person |-> -1, pii_vehicle |-> -1,
            pii_detections |-> <<>>]

\* the values an earlier run on the other imageset stored in its row
OtherPii == [pii_animal |-> 90, pii_person |-> 0, pii_vehicle |-> 0,
             pii_detections |-> <<<<>>>>]

\* the images table before the run
InitialImages == [id \in ImageIds |-> IF id = 1 THEN OtherPii ELSE NullPii]

\* convert_fpe_detections_to_db_format
convert_fpe_detections_to_db_format(detections) ==
    [pii_animal |-> detections.max_conf.animal,
     pii_person |-> detections.max_conf.person,
     pii_vehicle |-> detections.max_conf.vehicle,
     pii_detections |-> detections.detections]

\* the `rows` list save_results_to_database builds from `results`
db_rows(res) ==
    [k \in 1..Len(res) |->
        LET row == convert_fpe_detections_to_db_format(res[k])
        IN  [image_id |-> res[k].image_id,
             pii_animal |-> row.pii_animal,
             pii_person |-> row.pii_person,
             pii_vehicle |-> row.pii_vehicle,
             pii_detections |-> <<row.pii_detections>>]]

\* the rows as a set; the primary key image_id admits one row per id
RowSet(rws) == {rws[k] : k \in 1..Len(rws)}
KeyClash(table, rws) ==
    \/ \E k \in 1..Len(rws) : \E r \in table : r.image_id = rws[k].image_id
    \/ \E k, l \in 1..Len(rws) : k # l /\ rws[k].image_id = rws[l].image_id

\* the row INSERT INTO pii_results DEFAULT VALUES adds: image_id (Integer,
\* primary_key=True, hence a serial column) takes the next value of the
\* table's sequence and the other columns are NULL
DefaultRow(table) ==
    [image_id |-> 1 + Cardinality({r \in table : r.pii_detections = <<>>}),
     pii_animal |-> -1, pii_person |-> -1, pii_vehicle |-> -1,
     pii_detections |-> <<>>]

\* conn.execute(table.insert(), rows) without a key clash: the table it
\* leaves. With rows == [] the statement is executed without parameters:
\* nothing is inserted, or one row of default values is.
InsertOutcomes(table, rws) ==
    IF rws = <<>> THEN {table, table \cup {DefaultRow(table)}}
                  ELSE {table \cup RowSet(rws)}

\* UPDATE images SET pii_* = pii_results.pii_* FROM pii_results
\* WHERE images.id = pii_results.image_id
JoinUpdate(img, table) ==
    [id \in DOMAIN img |->
        IF \E r \in table : r.image_id = id
        THEN LET r == CHOOSE r \in table : r.image_id = id
             IN  [pii_animal |-> r.pii_animal,
                  pii_person |-> r.pii_person,
                  pii_vehicle |-> r.pii_vehicle,
                  pii_detections |-> r.pii_detections]
        ELSE img[id]]

\* no connection is open
Closed == [pc |-> "closed"]

\* no second process has been started
NoOtherRun == [pc |-> "absent", writes |-> <<>>]

\* ------------------------------------------------------------- conversion
\* CLASS_NAMES = {0: "animal", 1: "person", 2: "vehicle"}
CLASS_NAMES == (0 :> "animal") @@ (1 :> "person") @@ (2 :> "vehicle")

\* max(a, b)
max(a, b) == IF a >= b THEN a ELSE b

\* ndarray.astype(int) on a pixel coordinate: the fraction is dropped, towards
\* zero. Coordinates are fixed-point numbers in tenths of a pixel.
astype_int(x) == IF x >= 0 THEN (x \div 10) * 10 ELSE -(((-x) \div 10) * 10)

\* the mutation: max_conf takes the confidence of the latest detection of
\* the category
RECURSIVE md_loop_latest(_, _, _, _)
md_loop_latest(md, i, detections, max_conf) ==
    IF i > Len(md)
    THEN [ok |-> TRUE,
          value |-> [detections |-> detections, max_conf |-> max_conf]]
    ELSE LET detection == [category |-> md[i].class_id,
                           conf |-> md[i].confidence,
                           bbox |-> [j \in 1..4 |-> astype_int(md[i].xyxy[j])]]
         IN  IF detection.category \notin DOMAIN CLASS_NAMES
             THEN [ok |-> FALSE]
             ELSE md_loop_latest(md, i + 1, Append(detections, detection),
                      [max_conf EXCEPT ![CLASS_NAMES[detection.category]] =
                           detection.conf])

\* for i in range(n_detections): build the detection, append it, raise the
\* category's maximum; CLASS_NAMES[category] raises KeyError for an unknown
\* category, which the function logs and re-raises
RECURSIVE md_loop(_, _, _, _)
md_loop(md, i, detections, max_conf) ==
    IF i > Len(md)
    THEN [ok |-> TRUE,
          value |-> [detections |-> detections, max_conf |-> max_conf]]
    ELSE LET detection == [category |-> md[i].class_id,
                           conf |-> md[i].confidence,
                           bbox |-> [j \in 1..4 |-> astype_int(md[i].xyxy[j])]]
         IN  IF detection.category \notin DOMAIN CLASS_NAMES
             THEN [ok |-> FALSE]
             ELSE md_loop(md, i + 1, Append(detections, detection),
                      [max_conf EXCEPT ![CLASS_NAMES[detection.category]] =
                           max(@, detection.conf)])

\* convert_md_detections_to_fpe_format
convert_md_detections_to_fpe_format(md_detections) ==
    md_loop(md_detections, 1, <<>>,
            [animal |-> 0, person |-> 0, vehicle |-> 0])

\* raw detections of the detector: a class id (3 is not a class of
\* CLASS_NAMES), a confidence in percent, a box in tenths of a pixel
RawDetections ==
    [class_id : 0..3, confidence : {10, 90},
     xyxy : {<<100, 200, 300, 400>>, <<105, 209, 300, 417>>}]

RECURSIVE SeqsUpTo(_, _)
SeqsUpTo(S, n) ==
    IF n = 0 THEN {<<>>}
    ELSE LET shorter == SeqsUpTo(S, n - 1)
         IN  shorter \cup {Append(q, x) : q \in {r \in shorter : Len(r) = n - 1},
                                           x \in S}

\* ------------------------------------------------------------- Init
Init ==
    /\ args \in [dry_run : BOOLEAN, workers : WorkerArgs, batch_size : BatchArgs]
    /\ pc = "connect"
    /\ imageset = <<>>
    /\ df_images = <<>>
    /\ detector = <<>>
    /\ results = <<>>
    /\ seq_idx = 0
    /\ batch_size = 0
    /\ workers = 0
    /\ batch_start = 0
    /\ futures = <<>>
    /\ task = <<>>
    /\ yielded = {}
    /\ completed = 0
    /\ total_completed = 0
    /\ batchLog = <<>>
    /\ error = ""
    /\ ret = <<>>
    /\ pii_status = "PENDING"
    /\ statusWrites = <<>>
    /\ s3Calls = <<>>
    /\ dbCalls = <<>>
    /\ called = <<>>
    /\ printed = <<>>
    /\ logged = <<>>
    /\ images = InitialImages
    /\ pii_results = <<>>
    /\ conn = Closed
    /\ db_log = <<>>
    /\ runs = <<>>
    /\ md_results = <<>>
    /\ fpe_result = <<>>
    /\ other_run = NoOtherRun

\* ------------------------------------------------------------- status
\* update_imageset_pii_status: UPDATE ... SET pii_status; commit. The call
\* either commits the new value (ok) or raises and leaves the row alone.
update_imageset_pii_status(status, ok) ==
    /\ statusWrites' = Append(statusWrites, [status |-> status, ok |-> ok])
    /\ pii_status' = IF ok THEN status ELSE pii_status

\* ------------------------------------------------------------- run()
\* get_db_credentials / db_connect; a failure is logged and re-raised
run_connect ==
    /\ pc = "connect"
    /\ \E ok \in BOOLEAN :
         IF ok THEN pc' = "fetch_imageset" /\ error' = error
               ELSE pc' = "raised" /\ error' = "db_connect"
    /\ UNCHANGED <<args, imageset, df_images, detector, ret, pii_status,
                   statusWrites>>
    /\ UNCHANGED schedVars
    /\ UNCHANGED sinkVars
    /\ UNCHANGED dbVars
    /\ UNCHANGED runs
    /\ UNCHANGED convVars
    /\ UNCHANGED other_run

\* Mutant of run_fetch_imageset: the `if not imageset: raise` check is
\* missing, the run goes on after fetch_imageset logged "No imageset found".
run_fetch_imageset_no_check ==
    /\ pc = "fetch_imageset"
    /\ \E outcome \in {"found", "none", "raise"} :
         CASE outcome = "found" ->
                /\ imageset' = <<[id |-> 1, uuid |-> 1]>>
                /\ pc' = "set_processing"
                /\ error' = error
           [] outcome = "none" ->
                /\ imageset' = <<[id |-> 0, uuid |-> 0]>>
                /\ pc' = "set_processing"
                /\ error' = "imageset_not_found"
           [] outcome = "raise" ->
                /\ imageset' = imageset
                /\ pc' = "raised"
                /\ error' = "fetch_imageset"
    /\ UNCHANGED <<args, df_images, detector, ret, pii_status, statusWrites>>
    /\ UNCHANGED schedVars
    /\ UNCHANGED sinkVars
    /\ UNCHANGED dbVars
    /\ UNCHANGED runs
    /\ UNCHANGED convVars
    /\ UNCHANGED other_run

\* imageset = fetch_imageset(...); if not imageset: raise (outside any try)
run_fetch_imageset ==
    /\ pc = "fetch_imageset"
    /\ \E outcome \in {"found", "none", "raise"} :
         CASE outcome = "found" ->
                /\ imageset' = <<[id |-> 1, uuid |-> 1]>>
                /\ pc' = "set_processing"
                /\ error' = error
           [] outcome = "none" ->
                /\ imageset' = imageset
                /\ pc' = "raised"
                /\ error' = "imageset_not_found"
           [] outcome = "raise" ->
                /\ imageset' = imageset
                /\ pc' = "raised"
                /\ error' = "fetch_imageset"
    /\ UNCHANGED <<args, df_images, detector, ret, pii_status, statusWrites>>
    /\ UNCHANGED schedVars
    /\ UNCHANGED sinkVars
    /\ UNCHANGED dbVars
    /\ UNCHANGED runs
    /\ UNCHANGED convVars
    /\ UNCHANGED other_run

\* Mutant of run_set_processing: the PROCESSING write ignores --dry-run.
run_set_processing_always ==
    /\ pc = "set_processing"
    /\ \E ok \in BOOLEAN :
         /\ update_imageset_pii_status("PROCESSING", ok)
         /\ IF ok THEN pc' = "fetch_images" /\ error' = error
                  ELSE pc' = "except" /\ error' = "status_PROCESSING"
    /\ UNCHANGED <<args, imageset, df_images, detector, ret>>
    /\ UNCHANGED schedVars
    /\ UNCHANGED sinkVars
    /\ UNCHANGED dbVars
    /\ UNCHANGED runs
    /\ UNCHANGED convVars
    /\ UNCHANGED other_run

\* Mutant of run_set_processing: a PROCESSING write that raises is ignored
\* and the run goes on to fetch the images.
run_set_processing_swallow ==
    /\ pc = "set_processing"
    /\ IF args.dry_run
       THEN /\ pc' = "fetch_images"
            /\ UNCHANGED <<error, pii_status, statusWrites>>
       ELSE \E ok \in BOOLEAN :
            /\ update_imageset_pii_status("PROCESSING", ok)
            /\ pc' = "fetch_images"
            /\ error' = error
    /\ UNCHANGED <<args, imageset, df_images, detector, ret>>
    /\ UNCHANGED schedVars
    /\ UNCHANGED sinkVars
    /\ UNCHANGED dbVars
    /\ UNCHANGED runs
    /\ UNCHANGED convVars
    /\ UNCHANGED other_run

\* if not args.dry_run: update_imageset_pii_status(..., "PROCESSING")
run_set_processing ==
    /\ pc = "set_processing"
    /\ IF args.dry_run
       THEN /\ pc' = "fetch_images"
            /\ UNCHANGED <<error, pii_status, statusWrites>>
       ELSE \E ok \in BOOLEAN :
            /\ update_imageset_pii_status("PROCESSING", ok)
            /\ IF ok THEN pc' = "fetch_images" /\ error' = error
                     ELSE pc' = "except" /\ error' = "status_PROCESSING"
    /\ UNCHANGED <<args, imageset, df_images, detector, ret>>
    /\ UNCHANGED schedVars
    /\ UNCHANGED sinkVars
    /\ UNCHANGED dbVars
    /\ UNCHANGED runs
    /\ UNCHANGED convVars
    /\ UNCHANGED other_run

\* Mutant of run_fetch_images: the df_images.empty check is missing.
run_fetch_images_no_empty_check ==
    /\ pc = "fetch_images"
    /\ \/ \E n \in 0..MaxImages :
            /\ df_images' = <<[i \in 1..n |-> Row(i)]>>
            /\ task' = [i \in 1..n |-> "none"]
            /\ called' = [i \in 1..n |-> 0]
            /\ pc' = "load_detector"
            /\ error' = error
       \/ /\ pc' = "except"
          /\ error' = "fetch_images"
          /\ UNCHANGED <<df_images, task, called>>
    /\ UNCHANGED batchLog
    /\ UNCHANGED <<args, imageset, detector, ret, pii_status, statusWrites,
                   results, seq_idx, batch_size, workers, batch_start, futures,
                   yielded, completed, total_completed>>
    /\ UNCHANGED sinkVars
    /\ UNCHANGED dbVars
    /\ UNCHANGED runs
    /\ UNCHANGED convVars
    /\ UNCHANGED other_run

\* df_images = fetch_imageset_images(...); if df_images.empty: raise
run_fetch_images ==
    /\ pc = "fetch_images"
    /\ \/ \E n \in 0..MaxImages :
            /\ df_images' = <<[i \in 1..n |-> Row(i)]>>
            /\ task' = [i \in 1..n |-> "none"]
            /\ called' = [i \in 1..n |-> 0]
            /\ IF n = 0 THEN pc' = "except" /\ error' = "no_images"
                        ELSE pc' = "load_detector" /\ error' = error
       \/ /\ pc' = "except"
          /\ error' = "fetch_images"
          /\ UNCHANGED <<df_images, task, called>>
    /\ UNCHANGED batchLog
    /\ UNCHANGED <<args, imageset, detector, ret, pii_status, statusWrites,
                   results, seq_idx, batch_size, workers, batch_start, futures,
                   yielded, completed, total_completed>>
    /\ UNCHANGED sinkVars
    /\ UNCHANGED dbVars
    /\ UNCHANGED runs
    /\ UNCHANGED convVars
    /\ UNCHANGED other_run

\* Mutant of run_load_detector: a load failure is logged but not re-raised,
\* the run goes on without a detector.
run_load_detector_swallow ==
    /\ pc = "load_detector"
    /\ \E ok \in BOOLEAN :
         /\ detector' = IF ok THEN <<"model">> ELSE detector
         /\ error' = IF ok THEN error ELSE "load_detector"
    /\ IF args.workers = <<>> \/ args.workers[1] <= 0
       THEN /\ pc' = "sequence"
            /\ UNCHANGED <<workers, batch_size>>
       ELSE /\ pc' = "parallel"
            /\ workers' = IF args.workers[1] < n_images
                          THEN args.workers[1] ELSE n_images
            /\ batch_size' = IF args.batch_size < n_images
                             THEN args.batch_size ELSE n_images
    /\ UNCHANGED batchLog
    /\ UNCHANGED <<args, imageset, df_images, ret, pii_status, statusWrites,
                   results, seq_idx, batch_start, futures, task, yielded,
                   completed, total_completed, called>>
    /\ UNCHANGED sinkVars
    /\ UNCHANGED dbVars
    /\ UNCHANGED runs
    /\ UNCHANGED convVars
    /\ UNCHANGED other_run

\* detector = load_detector(...), then the choice of the scheduler:
\* sequential when workers is None or <= 0, else parallel with
\* workers = min(args.workers, n_images), batch_size = min(args.batch_size, n_images)
run_load_detector ==
    /\ pc = "load_detector"
    /\ \/ /\ detector' = <<"model">>
          /\ error' = error
          /\ IF args.workers = <<>> \/ args.workers[1] <= 0
             THEN /\ pc' = "sequence"
                  /\ UNCHANGED <<workers, batch_size>>
             ELSE /\ pc' = "parallel"
                  /\ workers' = Min(args.workers[1], n_images)
                  /\ batch_size' = Min(args.batch_size, n_images)
       \/ /\ pc' = "except"
          /\ error' = "load_detector"
          /\ UNCHANGED <<detector, workers, batch_size>>
    /\ UNCHANGED batchLog
    /\ UNCHANGED <<args, imageset, df_images, ret, pii_status, statusWrites,
                   results, seq_idx, batch_start, futures, task, yielded,
                   completed, total_completed, called>>
    /\ UNCHANGED sinkVars
    /\ UNCHANGED dbVars
    /\ UNCHANGED runs
    /\ UNCHANGED convVars
    /\ UNCHANGED other_run

\* ------------------------------------------------------------- sequential
\* Mutant of seq_iter: the result is inserted at the head of the list.
seq_iter_prepend ==
    /\ pc = "sequence"
    /\ seq_idx < n_images
    /\ seq_idx' = seq_idx + 1
    /\ called' = [called EXCEPT ![seq_idx + 1] = @ + 1]
    /\ \/ /\ results' = <<process_image(rows[seq_idx + 1])>> \o results
          /\ UNCHANGED <<pc, error>>
       \/ /\ pc' = "except"
          /\ error' = "detect"
          /\ UNCHANGED results
    /\ UNCHANGED batchLog
    /\ UNCHANGED <<args, imageset, df_images, detector, ret, pii_status,
                   statusWrites, batch_size, workers, batch_start, futures,
                   task, yielded, completed, total_completed>>
    /\ UNCHANGED sinkVars
    /\ UNCHANGED dbVars
    /\ UNCHANGED runs
    /\ UNCHANGED convVars
    /\ UNCHANGED other_run

\* process_images_in_sequence: one loop iteration. process_image either
\* returns the augmented result, which is appended, or raises; nothing in the
\* loop catches, so the exception leaves the scheduler and reaches run()'s
\* except clause.
seq_iter ==
    /\ pc = "sequence"
    /\ seq_idx < n_images
    /\ seq_idx' = seq_idx + 1
    /\ called' = [called EXCEPT ![seq_idx + 1] = @ + 1]
    /\ \/ /\ results' = Append(results, process_image(rows[seq_idx + 1]))
          /\ UNCHANGED <<pc, error>>
       \/ /\ pc' = "except"
          /\ error' = "detect"
          /\ UNCHANGED results
    /\ UNCHANGED batchLog
    /\ UNCHANGED <<args, imageset, df_images, detector, ret, pii_status,
                   statusWrites, batch_size, workers, batch_start, futures,
                   task, yielded, completed, total_completed>>
    /\ UNCHANGED sinkVars
    /\ UNCHANGED dbVars
    /\ UNCHANGED runs
    /\ UNCHANGED convVars
    /\ UNCHANGED other_run

\* process_images_in_sequence: the loop is exhausted, return results
seq_return ==
    /\ pc = "sequence"
    /\ seq_idx = n_images
    /\ pc' = "save"
    /\ UNCHANGED <<args, imageset, df_images, detector, error, ret, pii_status,
                   statusWrites>>
    /\ UNCHANGED schedVars
    /\ UNCHANGED sinkVars
    /\ UNCHANGED dbVars
    /\ UNCHANGED runs
    /\ UNCHANGED convVars
    /\ UNCHANGED other_run

\* ------------------------------------------------------------- parallel
\* range(0, n_images, batch_size) with batch_size = 0 raises ValueError
par_range_error ==
    /\ pc = "parallel"
    /\ batch_size = 0
    /\ pc' = "except"
    /\ error' = "range_step_zero"
    /\ UNCHANGED <<args, imageset, df_images, detector, ret, pii_status,
                   statusWrites>>
    /\ UNCHANGED schedVars
    /\ UNCHANGED sinkVars
    /\ UNCHANGED dbVars
    /\ UNCHANGED runs
    /\ UNCHANGED convVars
    /\ UNCHANGED other_run

\* the batch loop takes its next batch_start and enters the `with` block of a
\* new ThreadPoolExecutor(max_workers=workers)
par_batch_begin ==
    /\ pc = "parallel"
    /\ batch_start \in BatchStarts(n_images, batch_size)
    /\ pc' = "submit"
    /\ futures' = <<>>
    /\ yielded' = {}
    /\ UNCHANGED batchLog
    /\ UNCHANGED <<args, imageset, df_images, detector, error, ret, pii_status,
                   statusWrites, results, seq_idx, batch_size, workers,
                   batch_start, task, completed, total_completed, called>>
    /\ UNCHANGED sinkVars
    /\ UNCHANGED dbVars
    /\ UNCHANGED runs
    /\ UNCHANGED convVars
    /\ UNCHANGED other_run

\* futures.append(executor.submit(process_image, ...)) for the next row of the
\* batch; after the last row, completed = 0 and the as_completed loop starts
par_submit ==
    /\ pc = "submit"
    /\ LET i == batch_start + Len(futures) + 1
       IN  /\ i <= batch_end
           /\ futures' = Append(futures, i)
           /\ task' = [task EXCEPT ![i] = "pending"]
           /\ IF i = batch_end
              THEN pc' = "collect" /\ completed' = 0
              ELSE UNCHANGED <<pc, completed>>
    /\ UNCHANGED batchLog
    /\ UNCHANGED <<args, imageset, df_images, detector, error, ret, pii_status,
                   statusWrites, results, seq_idx, batch_size, workers,
                   batch_start, yielded, total_completed, called>>
    /\ UNCHANGED sinkVars
    /\ UNCHANGED dbVars
    /\ UNCHANGED runs
    /\ UNCHANGED convVars
    /\ UNCHANGED other_run

\* Mutant of worker_start: the pool starts a queued task whatever the number
\* of running ones.
worker_start_unbounded(i) ==
    /\ i \in Pending
    /\ \A j \in Pending : i <= j
    /\ task' = [task EXCEPT ![i] = "running"]
    /\ called' = [called EXCEPT ![i] = @ + 1]
    /\ UNCHANGED batchLog
    /\ UNCHANGED <<args, pc, imageset, df_images, detector, error, ret,
                   pii_status, statusWrites, results, seq_idx, batch_size,
                   workers, batch_start, futures, yielded, completed,
                   total_completed>>
    /\ UNCHANGED sinkVars
    /\ UNCHANGED dbVars
    /\ UNCHANGED runs
    /\ UNCHANGED convVars
    /\ UNCHANGED other_run

\* a pool thread takes the oldest queued task and calls process_image; at
\* most max_workers threads exist
worker_start(i) ==
    /\ i \in Pending
    /\ \A j \in Pending : i <= j
    /\ Cardinality(Running) < workers
    /\ task' = [task EXCEPT ![i] = "running"]
    /\ called' = [called EXCEPT ![i] = @ + 1]
    /\ UNCHANGED batchLog
    /\ UNCHANGED <<args, pc, imageset, df_images, detector, error, ret,
                   pii_status, statusWrites, results, seq_idx, batch_size,
                   workers, batch_start, futures, yielded, completed,
                   total_completed>>
    /\ UNCHANGED sinkVars
    /\ UNCHANGED dbVars
    /\ UNCHANGED runs
    /\ UNCHANGED convVars
    /\ UNCHANGED other_run

\* Mutant of worker_finish: the pool thread itself appends its result to the
\* results list and counts the image.
worker_finish_appends(i) ==
    /\ i \in Running
    /\ \E outcome \in {"returned", "raised"} :
         /\ task' = [task EXCEPT ![i] = outcome]
         /\ results' = IF outcome = "returned"
                       THEN Append(results, process_image(rows[i]))
                       ELSE results
    /\ total_completed' = total_completed + 1
    /\ UNCHANGED batchLog
    /\ UNCHANGED <<args, pc, imageset, df_images, detector, error, ret,
                   pii_status, statusWrites, seq_idx, batch_size,
                   workers, batch_start, futures, yielded, completed, called>>
    /\ UNCHANGED sinkVars
    /\ UNCHANGED dbVars
    /\ UNCHANGED runs
    /\ UNCHANGED convVars
    /\ UNCHANGED other_run

\* process_image ends in its thread: the future holds its result or the
\* exception detect_image raised
worker_finish(i) ==
    /\ i \in Running
    /\ \E outcome \in {"returned", "raised"} :
         task' = [task EXCEPT ![i] = outcome]
    /\ UNCHANGED batchLog
    /\ UNCHANGED <<args, pc, imageset, df_images, detector, error, ret,
                   pii_status, statusWrites, results, seq_idx, batch_size,
                   workers, batch_start, futures, yielded, completed,
                   total_completed, called>>
    /\ UNCHANGED sinkVars
    /\ UNCHANGED dbVars
    /\ UNCHANGED runs
    /\ UNCHANGED convVars
    /\ UNCHANGED other_run

\* one iteration of `for future in as_completed(futures)`: future.result()
\* returns and the result is appended, or it raises and the error is logged;
\* both branches count the image as completed
par_collect(i) ==
    /\ pc = "collect"
    /\ \E k \in 1..Len(futures) : futures[k] = i
    /\ i \notin yielded
    /\ Done(i)
    /\ yielded' = yielded \cup {i}
    /\ completed' = completed + 1
    /\ total_completed' = total_completed + 1
    /\ results' = IF task[i] = "returned"
                  THEN Append(results, process_image(rows[i]))
                  ELSE results
    /\ UNCHANGED batchLog
    /\ UNCHANGED <<args, pc, imageset, df_images, detector, error, ret,
                   pii_status, statusWrites, seq_idx, batch_size, workers,
                   batch_start, futures, task, called>>
    /\ UNCHANGED sinkVars
    /\ UNCHANGED dbVars
    /\ UNCHANGED runs
    /\ UNCHANGED convVars
    /\ UNCHANGED other_run

\* Mutant of par_batch_end: the batch loop advances one row too far.
par_batch_end_skip ==
    /\ pc = "collect"
    /\ \A k \in 1..Len(futures) : futures[k] \in yielded
    /\ pc' = "parallel"
    /\ batch_start' = batch_start + batch_size + 1
    /\ batchLog' = Append(batchLog, futures)
    /\ UNCHANGED <<args, imageset, df_images, detector, error, ret, pii_status,
                   statusWrites, results, seq_idx, batch_size, workers,
                   futures, task, yielded, completed, total_completed, called>>
    /\ UNCHANGED sinkVars
    /\ UNCHANGED dbVars
    /\ UNCHANGED runs
    /\ UNCHANGED convVars
    /\ UNCHANGED other_run

\* Mutant of par_batch_end: the batch loop advances as soon as one future of
\* the batch has been collected.
par_batch_end_early ==
    /\ pc = "collect"
    /\ \E k \in 1..Len(futures) : futures[k] \in yielded
    /\ pc' = "parallel"
    /\ batch_start' = batch_start + batch_size
    /\ batchLog' = Append(batchLog, futures)
    /\ UNCHANGED <<args, imageset, df_images, detector, error, ret, pii_status,
                   statusWrites, results, seq_idx, batch_size, workers,
                   futures, task, yielded, completed, total_completed, called>>
    /\ UNCHANGED sinkVars
    /\ UNCHANGED dbVars
    /\ UNCHANGED runs
    /\ UNCHANGED convVars
    /\ UNCHANGED other_run

\* as_completed is exhausted: the `with` block exits (shutdown, wait=True) and
\* the batch loop advances
par_batch_end ==
    /\ pc = "collect"
    /\ \A k \in 1..Len(futures) : futures[k] \in yielded
    /\ pc' = "parallel"
    /\ batch_start' = batch_start + batch_size
    /\ batchLog' = Append(batchLog, futures)
    /\ UNCHANGED <<args, imageset, df_images, detector, error, ret, pii_status,
                   statusWrites, results, seq_idx, batch_size, workers,
                   futures, task, yielded, completed, total_completed, called>>
    /\ UNCHANGED sinkVars
    /\ UNCHANGED dbVars
    /\ UNCHANGED runs
    /\ UNCHANGED convVars
    /\ UNCHANGED other_run

\* the batch loop is exhausted (or empty, for a negative step): return results
par_return ==
    /\ pc = "parallel"
    /\ batch_size # 0
    /\ batch_start \notin BatchStarts(n_images, batch_size)
    /\ pc' = "save"
    /\ UNCHANGED <<args, imageset, df_images, detector, error, ret, pii_status,
                   statusWrites>>
    /\ UNCHANGED schedVars
    /\ UNCHANGED sinkVars
    /\ UNCHANGED dbVars
    /\ UNCHANGED runs
    /\ UNCHANGED convVars
    /\ UNCHANGED other_run

\* ------------------------------------------------------------- persistence
\* if not args.dry_run: save_results_to_s3(bucket, key, results)
run_save_s3 ==
    /\ pc = "save"
    /\ ~args.dry_run
    /\ \E ok \in BOOLEAN :
         /\ s3Calls' = Append(s3Calls, [data |-> results, ok |-> ok])
         /\ IF ok THEN pc' = "save_db" /\ error' = error
                  ELSE pc' = "except" /\ error' = "save_s3"
    /\ UNCHANGED <<args, imageset, df_images, detector, ret, pii_status,
                   statusWrites, dbCalls, printed, logged>>
    /\ UNCHANGED schedVars
    /\ UNCHANGED dbVars
    /\ UNCHANGED runs
    /\ UNCHANGED convVars
    /\ UNCHANGED other_run

\* Mutant of run_save_db: a failed database write is logged but not
\* re-raised, the run goes on to the DONE write.
run_save_db_swallow ==
    /\ pc = "save_db"
    /\ \E ok \in BOOLEAN :
         /\ dbCalls' = Append(dbCalls, [data |-> results, ok |-> ok])
         /\ \E table \in InsertOutcomes({}, db_rows(results)) :
              images' = IF ok THEN JoinUpdate(images, table) ELSE images
    /\ pc' = "set_done"
    /\ UNCHANGED <<args, imageset, df_images, detector, error, ret, pii_status,
                   statusWrites, s3Calls, printed>>
    /\ logged' = Append(logged, [level |-> "info", n_images |-> Len(results)])
    /\ UNCHANGED schedVars
    /\ UNCHANGED <<pii_results, conn, db_log, runs>>
    /\ UNCHANGED convVars
    /\ UNCHANGED other_run

\* Mutant of run_save_db: the database write is handed the result list without
\* its last element.
run_save_db_partial ==
    /\ pc = "save_db"
    /\ \E ok \in BOOLEAN :
         /\ dbCalls' = Append(dbCalls,
                [data |-> SubSeq(results, 1, Len(results) - 1), ok |-> ok])
         /\ images' = IF ok
                      THEN JoinUpdate(images,
                               RowSet(db_rows(SubSeq(results, 1,
                                                     Len(results) - 1))))
                      ELSE images
         /\ IF ok THEN pc' = "set_done" /\ error' = error
                  ELSE pc' = "except" /\ error' = "save_db"
    /\ UNCHANGED <<args, imageset, df_images, detector, ret, pii_status,
                   statusWrites, s3Calls, printed>>
    /\ logged' = Append(logged, [level |-> "info", n_images |-> Len(results)])
    /\ UNCHANGED schedVars
    /\ UNCHANGED <<pii_results, conn, db_log, runs>>
    /\ UNCHANGED convVars
    /\ UNCHANGED other_run

\* save_results_to_database(db_engine, results)
run_save_db ==
    /\ pc = "save_db"
    /\ \E ok \in BOOLEAN :
         /\ dbCalls' = Append(dbCalls, [data |-> results, ok |-> ok])
         /\ \E table \in InsertOutcomes({}, db_rows(results)) :
              images' = IF ok THEN JoinUpdate(images, table) ELSE images
         /\ IF ok THEN pc' = "set_done" /\ error' = error
                  ELSE pc' = "except" /\ error' = "save_db"
    /\ UNCHANGED <<args, imageset, df_images, detector, ret, pii_status,
                   statusWrites, s3Calls, printed>>
    /\ logged' = Append(logged, [level |-> "info", n_images |-> Len(results)])
    /\ UNCHANGED schedVars
    /\ UNCHANGED <<pii_results, conn, db_log, runs>>
    /\ UNCHANGED convVars
    /\ UNCHANGED other_run

\* Mutant of run_set_done: the step after a successful DONE write raises
\* inside the try block.
run_set_done_then_raise ==
    /\ pc = "set_done"
    /\ \E ok \in BOOLEAN :
         /\ update_imageset_pii_status("DONE", ok)
         /\ pc' = "except"
         /\ ret' = ret
         /\ error' = "status_DONE"
    /\ UNCHANGED <<args, imageset, df_images, detector>>
    /\ UNCHANGED schedVars
    /\ UNCHANGED sinkVars
    /\ UNCHANGED dbVars
    /\ UNCHANGED runs
    /\ UNCHANGED convVars
    /\ UNCHANGED other_run

\* update_imageset_pii_status(..., "DONE"); return 0
run_set_done ==
    /\ pc = "set_done"
    /\ \E ok \in BOOLEAN :
         /\ update_imageset_pii_status("DONE", ok)
         /\ IF ok THEN pc' = "returned" /\ ret' = <<0>> /\ error' = error
                  ELSE pc' = "except" /\ ret' = ret /\ error' = "status_DONE"
    /\ UNCHANGED <<args, imageset, df_images, detector>>
    /\ UNCHANGED schedVars
    /\ UNCHANGED sinkVars
    /\ UNCHANGED dbVars
    /\ UNCHANGED runs
    /\ UNCHANGED convVars
    /\ UNCHANGED other_run

\* else: the dry run logs json.dumps(results); return 0
run_dry_run_complete ==
    /\ pc = "save"
    /\ args.dry_run
    /\ printed' = <<results>>
    /\ pc' = "returned"
    /\ ret' = <<0>>
    /\ UNCHANGED <<args, imageset, df_images, detector, error, pii_status,
                   statusWrites, s3Calls, dbCalls, logged>>
    /\ UNCHANGED schedVars
    /\ UNCHANGED dbVars
    /\ UNCHANGED runs
    /\ UNCHANGED convVars
    /\ UNCHANGED other_run

\* Mutant of run_except: the handler writes DONE where it should write FAILED.
run_except_writes_done ==
    /\ pc = "except"
    /\ IF imageset # <<>> /\ ~args.dry_run
       THEN \E ok \in BOOLEAN :
            /\ update_imageset_pii_status("DONE", ok)
            /\ IF ok THEN pc' = "returned" /\ ret' = <<1>>
                     ELSE pc' = "raised" /\ ret' = ret
       ELSE /\ pc' = "returned"
            /\ ret' = <<1>>
            /\ UNCHANGED <<pii_status, statusWrites>>
    /\ UNCHANGED <<args, imageset, df_images, detector, error>>
    /\ UNCHANGED schedVars
    /\ logged' = Append(logged, [level |-> "error", e |-> error])
    /\ UNCHANGED <<s3Calls, dbCalls, printed>>
    /\ UNCHANGED dbVars
    /\ UNCHANGED runs
    /\ UNCHANGED convVars
    /\ UNCHANGED other_run

\* Mutant of run_except: the handler returns 1 without the FAILED write.
run_except_no_status ==
    /\ pc = "except"
    /\ pc' = "returned"
    /\ ret' = <<1>>
    /\ UNCHANGED <<args, imageset, df_images, detector, error, pii_status,
                   statusWrites>>
    /\ UNCHANGED schedVars
    /\ logged' = Append(logged, [level |-> "error", e |-> error])
    /\ UNCHANGED <<s3Calls, dbCalls, printed>>
    /\ UNCHANGED dbVars
    /\ UNCHANGED runs
    /\ UNCHANGED convVars
    /\ UNCHANGED other_run

\* except Exception: log; if "imageset" in locals() and not args.dry_run:
\* update_imageset_pii_status(..., "FAILED"); return 1. An exception of that
\* status update is raised inside the handler and leaves run().
run_except ==
    /\ pc = "except"
    /\ IF imageset # <<>> /\ ~args.dry_run
       THEN \E ok \in BOOLEAN :
            /\ update_imageset_pii_status("FAILED", ok)
            /\ IF ok THEN pc' = "returned" /\ ret' = <<1>>
                     ELSE pc' = "raised" /\ ret' = ret
       ELSE /\ pc' = "returned"
            /\ ret' = <<1>>
            /\ UNCHANGED <<pii_status, statusWrites>>
    /\ UNCHANGED <<args, imageset, df_images, detector, error>>
    /\ UNCHANGED schedVars
    /\ logged' = Append(logged, [level |-> "error", e |-> error])
    /\ UNCHANGED <<s3Calls, dbCalls, printed>>
    /\ UNCHANGED dbVars
    /\ UNCHANGED runs
    /\ UNCHANGED convVars
    /\ UNCHANGED other_run

\* ------------------------------------------------------------- save_results_to_database, step by step
\* result lists a caller can hand to save_results_to_database: the successes
\* of some of the first MaxRows images, in the order of the image list
ResultLists ==
    {[k \in 1..Cardinality(S) |->
        process_image(Row(CHOOSE i \in S :
                            Cardinality({j \in S : j < i}) = k - 1))] :
     S \in SUBSET (1..MaxRows)}

\* except Exception: logger.error(...); raise -- leaving `with` closes the
\* connection, which rolls the open transaction back
save_db_raise(cause) ==
    /\ db_log' = Append(db_log, [data |-> conn.data, ok |-> FALSE,
                                 cause |-> cause, at |-> conn.pc,
                                 before |-> conn.before, after |-> images])
    /\ conn' = Closed
    /\ UNCHANGED <<images, pii_results>>

\* rows = [...]; with engine.connect() as conn: the pool hands back the
\* session of the previous call, or opens a new one when that was discarded
save_db_connect(res) ==
    /\ pc = "database"
    /\ conn = Closed
    /\ Len(db_log) < MaxCalls
    /\ \/ /\ db_log' = Append(db_log, [data |-> res, ok |-> FALSE,
                                       cause |-> "connection", at |-> "closed",
                                       before |-> images, after |-> images])
          /\ UNCHANGED <<images, pii_results, conn>>
       \/ /\ \E reuse \in BOOLEAN :
               pii_results' = IF reuse THEN pii_results ELSE <<>>
          /\ conn' = [pc |-> "connected", data |-> res, rows |-> db_rows(res),
                      before |-> images, images |-> images,
                      pii_results |-> pii_results']
          /\ UNCHANGED <<images, db_log>>
    /\ UNCHANGED runVars
    /\ UNCHANGED convVars
    /\ UNCHANGED other_run
    /\ UNCHANGED schedVars
    /\ UNCHANGED sinkVars

\* metadata.create_all(conn): CREATE TEMPORARY TABLE pii_results, skipped
\* when the check for an existing table finds it, refused when the table
\* exists and the check did not find it
save_db_create ==
    /\ pc = "database"
    /\ conn.pc = "connected"
    /\ \/ /\ conn.pii_results = <<>>
          /\ conn' = [conn EXCEPT !.pc = "created", !.pii_results = <<{}>>]
          /\ UNCHANGED <<images, pii_results, db_log>>
       \/ /\ conn.pii_results # <<>>
          /\ \/ /\ conn' = [conn EXCEPT !.pc = "created"]
                /\ UNCHANGED <<images, pii_results, db_log>>
             \/ save_db_raise("table_exists")
       \/ save_db_raise("connection")
    /\ UNCHANGED runVars
    /\ UNCHANGED convVars
    /\ UNCHANGED other_run
    /\ UNCHANGED schedVars
    /\ UNCHANGED sinkVars

\* conn.execute(table.insert(), rows)
save_db_insert ==
    /\ pc = "database"
    /\ conn.pc = "created"
    /\ \/ /\ ~KeyClash(conn.pii_results[1], conn.rows)
          /\ \E table \in InsertOutcomes(conn.pii_results[1], conn.rows) :
               conn' = [conn EXCEPT !.pc = "inserted",
                                    !.pii_results = <<table>>]
          /\ UNCHANGED <<images, pii_results, db_log>>
       \/ /\ conn.rows = <<>>
          /\ save_db_raise("empty_insert")
       \/ /\ KeyClash(conn.pii_results[1], conn.rows)
          /\ save_db_raise("duplicate_key")
       \/ save_db_raise("connection")
    /\ UNCHANGED runVars
    /\ UNCHANGED convVars
    /\ UNCHANGED other_run
    /\ UNCHANGED schedVars
    /\ UNCHANGED sinkVars

\* the mutation: the UPDATE is committed as soon as it is executed
save_db_update_autocommit ==
    /\ pc = "database"
    /\ conn.pc = "inserted"
    /\ \/ /\ conn' = [conn EXCEPT
                        !.pc = "updated",
                        !.images = JoinUpdate(conn.images, conn.pii_results[1])]
          /\ images' = JoinUpdate(conn.images, conn.pii_results[1])
          /\ UNCHANGED <<pii_results, db_log>>
       \/ save_db_raise("connection")
    /\ UNCHANGED runVars
    /\ UNCHANGED convVars
    /\ UNCHANGED other_run
    /\ UNCHANGED schedVars
    /\ UNCHANGED sinkVars

\* conn.execute(text("UPDATE images SET ... FROM pii_results WHERE ..."))
save_db_update ==
    /\ pc = "database"
    /\ conn.pc = "inserted"
    /\ \/ /\ conn' = [conn EXCEPT
                        !.pc = "updated",
                        !.images = JoinUpdate(conn.images, conn.pii_results[1])]
          /\ UNCHANGED <<images, pii_results, db_log>>
       \/ save_db_raise("connection")
    /\ UNCHANGED runVars
    /\ UNCHANGED convVars
    /\ UNCHANGED other_run
    /\ UNCHANGED schedVars
    /\ UNCHANGED sinkVars

\* conn.commit(); the connection goes back to the pool
save_db_commit ==
    /\ pc = "database"
    /\ conn.pc = "updated"
    /\ \/ /\ images' = conn.images
          /\ pii_results' = conn.pii_results
          /\ db_log' = Append(db_log, [data |-> conn.data, ok |-> TRUE,
                                       cause |-> "", at |-> "updated",
                                       before |-> conn.before,
                                       after |-> conn.images])
          /\ conn' = Closed
       \/ save_db_raise("connection")
    /\ UNCHANGED runVars
    /\ UNCHANGED convVars
    /\ UNCHANGED other_run
    /\ UNCHANGED schedVars
    /\ UNCHANGED sinkVars

\* ------------------------------------------------------------- re-run
\* a later process invokes run() on the same imageset after a run that
\* returned 0 with the status DONE: the database keeps pii_status and the
\* image rows, everything local to the earlier process is gone
rerun ==
    /\ pc = "returned"
    /\ ret = <<0>>
    /\ ~args.dry_run
    /\ pii_status = "DONE"
    /\ runs = <<>>
    /\ runs' = Append(runs, [n |-> n_images,
                             raised |-> {i \in DOMAIN task : task[i] = "raised"},
                             images |-> images])
    /\ args' \in [dry_run : BOOLEAN, workers : WorkerArgs, batch_size : BatchArgs]
    /\ pc' = "connect"
    /\ imageset' = <<>>
    /\ df_images' = <<>>
    /\ detector' = <<>>
    /\ results' = <<>>
    /\ seq_idx' = 0
    /\ batch_size' = 0
    /\ workers' = 0
    /\ batch_start' = 0
    /\ futures' = <<>>
    /\ task' = <<>>
    /\ yielded' = {}
    /\ completed' = 0
    /\ total_completed' = 0
    /\ batchLog' = <<>>
    /\ error' = ""
    /\ ret' = <<>>
    /\ statusWrites' = <<>>
    /\ s3Calls' = <<>>
    /\ dbCalls' = <<>>
    /\ called' = <<>>
    /\ printed' = <<>>
    /\ logged' = <<>>
    /\ pii_results' = <<>>
    /\ conn' = Closed
    /\ UNCHANGED <<pii_status, images, db_log>>
    /\ UNCHANGED convVars
    /\ UNCHANGED other_run

\* ------------------------------------------------------------- second run
\* A second process runs run() on the same imageset id, without --dry-run.
\* Of its state only its position and its status updates are kept; the
\* imagesets row (pii_status) is the one the first process writes.

\* what a step of the second process leaves alone besides pii_status
otherFrame == <<args, pc, imageset, df_images, detector, error, ret,
                statusWrites, runs, schedVars, sinkVars, dbVars, convVars>>

\* the second process is launched
other_start ==
    /\ other_run.pc = "absent"
    /\ other_run' = [other_run EXCEPT !.pc = "fetch_imageset"]
    /\ UNCHANGED pii_status
    /\ UNCHANGED otherFrame

\* imageset = fetch_imageset(...); if not imageset: raise. The row's
\* pii_status is fetched with the row and not looked at.
other_fetch_imageset ==
    /\ other_run.pc = "fetch_imageset"
    /\ \E found \in BOOLEAN :
         other_run' = [other_run EXCEPT
                         !.pc = IF found THEN "set_processing" ELSE "raised"]
    /\ UNCHANGED pii_status
    /\ UNCHANGED otherFrame

\* Mutant of other_update_imageset_pii_status: the UPDATE leaves a terminal
\* status in place.
other_update_keeps_terminal(status, ok, next) ==
    /\ pii_status' = IF ok /\ pii_status \notin {"DONE", "FAILED"}
                     THEN status ELSE pii_status
    /\ other_run' = [pc |-> next,
                     writes |-> Append(other_run.writes,
                                   [status |-> status, ok |-> ok,
                                    at |-> Len(statusWrites)])]

\* update_imageset_pii_status called by the second process; `at` is the
\* number of calls the first process had made before this one
other_update_imageset_pii_status(status, ok, next) ==
    /\ pii_status' = IF ok THEN status ELSE pii_status
    /\ other_run' = [pc |-> next,
                     writes |-> Append(other_run.writes,
                                   [status |-> status, ok |-> ok,
                                    at |-> Len(statusWrites)])]

\* update_imageset_pii_status(..., "PROCESSING") inside the try block
other_set_processing ==
    /\ other_run.pc = "set_processing"
    /\ \E ok \in BOOLEAN :
         other_update_imageset_pii_status("PROCESSING", ok,
             IF ok THEN "detect" ELSE "except")
    /\ UNCHANGED otherFrame

\* fetch images, load the detector, detect, save: returns or raises
other_detect ==
    /\ other_run.pc = "detect"
    /\ \E ok \in BOOLEAN :
         other_run' = [other_run EXCEPT
                         !.pc = IF ok THEN "set_done" ELSE "except"]
    /\ UNCHANGED pii_status
    /\ UNCHANGED otherFrame

\* update_imageset_pii_status(..., "DONE"); return 0
other_set_done ==
    /\ other_run.pc = "set_done"
    /\ \E ok \in BOOLEAN :
         other_update_imageset_pii_status("DONE", ok,
             IF ok THEN "returned" ELSE "except")
    /\ UNCHANGED otherFrame

\* except Exception: update_imageset_pii_status(..., "FAILED"); return 1
other_except ==
    /\ other_run.pc = "except"
    /\ \E ok \in BOOLEAN :
         other_update_imageset_pii_status("FAILED", ok, "returned")
    /\ UNCHANGED otherFrame

\* ------------------------------------------------------------- spec
Next ==
    \/ run_connect
    \/ run_fetch_imageset
    \/ run_set_processing
    \/ run_fetch_images
    \/ run_load_detector
    \/ seq_iter
    \/ seq_return
    \/ par_range_error
    \/ par_batch_begin
    \/ par_submit
    \/ \E i \in DOMAIN task : worker_start(i)
    \/ \E i \in DOMAIN task : worker_finish(i)
    \/ \E i \in DOMAIN task : par_collect(i)
    \/ par_batch_end
    \/ par_return
    \/ run_save_s3
    \/ run_save_db
    \/ run_set_done
    \/ run_dry_run_complete
    \/ run_except

Spec == Init /\ [][Next]_vars

\* Every call returns or raises and every pool thread is scheduled: each
\* enabled step is eventually taken.
FairSpec == Spec /\ WF_vars(Next)

\* The steps of the coordinating thread (everything but the pool threads).
CoordinatorNext ==
    \/ run_connect
    \/ run_fetch_imageset
    \/ run_set_processing
    \/ run_fetch_images
    \/ run_load_detector
    \/ seq_iter
    \/ seq_return
    \/ par_range_error
    \/ par_batch_begin
    \/ par_submit
    \/ \E i \in DOMAIN task : par_collect(i)
    \/ par_batch_end
    \/ par_return
    \/ run_save_s3
    \/ run_save_db
    \/ run_set_done
    \/ run_dry_run_complete
    \/ run_except

\* As FairSpec, but a detect call running in a pool thread need not return:
\* the coordinator takes every step it can and the pool starts every queued
\* task it has a thread for, while worker_finish is under no fairness.
HangSpec ==
    /\ Spec
    /\ WF_vars(CoordinatorNext)
    /\ WF_vars(\E i \in DOMAIN task : worker_start(i))

\* run() followed by at most one re-run on the same imageset
RerunNext == Next \/ rerun

RerunSpec == Init /\ [][RerunNext]_vars

\* Two processes on the same imageset: the first in sequential mode and
\* without --dry-run, the second started at any moment
TwoRunInit ==
    /\ Init
    /\ args = [dry_run |-> FALSE, workers |-> <<>>, batch_size |-> 1]

TwoRunNext ==
    \/ run_connect
    \/ run_fetch_imageset
    \/ run_set_processing
    \/ run_fetch_images
    \/ run_load_detector
    \/ seq_iter
    \/ seq_return
    \/ run_save_s3
    \/ run_save_db
    \/ run_set_done
    \/ run_except
    \/ other_start
    \/ other_fetch_imageset
    \/ other_set_processing
    \/ other_detect
    \/ other_set_done
    \/ other_except

TwoRunSpec == TwoRunInit /\ [][TwoRunNext]_vars

\* save_results_to_database called up to MaxCalls times by one process on
\* one engine, outside run()
DbInit ==
    /\ args = [dry_run |-> FALSE, workers |-> <<>>, batch_size |-> 1]
    /\ pc = "database"
    /\ imageset = <<>>
    /\ df_images = <<>>
    /\ detector = <<>>
    /\ results = <<>>
    /\ seq_idx = 0
    /\ batch_size = 0
    /\ workers = 0
    /\ batch_start = 0
    /\ futures = <<>>
    /\ task = <<>>
    /\ yielded = {}
    /\ completed = 0
    /\ total_completed = 0
    /\ batchLog = <<>>
    /\ error = ""
    /\ ret = <<>>
    /\ pii_status = "PENDING"
    /\ statusWrites = <<>>
    /\ s3Calls = <<>>
    /\ dbCalls = <<>>
    /\ called = <<>>
    /\ printed = <<>>
    /\ logged = <<>>
    /\ images = InitialImages
    /\ pii_results = <<>>
    /\ conn = Closed
    /\ db_log = <<>>
    /\ runs = <<>>
    /\ md_results = <<>>
    /\ fpe_result = <<>>
    /\ other_run = NoOtherRun

DbNext ==
    \/ \E res \in ResultLists : save_db_connect(res)
    \/ save_db_create
    \/ save_db_insert
    \/ save_db_update
    \/ save_db_commit

DbSpec == DbInit /\ [][DbNext]_vars

\* convert_md_detections_to_fpe_format applied to one detector output
conv_call ==
    /\ pc = "convert"
    /\ fpe_result = <<>>
    /\ fpe_result' = <<convert_md_detections_to_fpe_format(md_results)>>
    /\ UNCHANGED md_results
    /\ UNCHANGED runVars
    /\ UNCHANGED schedVars
    /\ UNCHANGED sinkVars
    /\ UNCHANGED dbVars
    /\ UNCHANGED other_run

ConvInit ==
    /\ args = [dry_run |-> FALSE, workers |-> <<>>, batch_size |-> 1]
    /\ pc = "convert"
    /\ imageset = <<>>
    /\ df_images = <<>>
    /\ detector = <<>>
    /\ results = <<>>
    /\ seq_idx = 0
    /\ batch_size = 0
    /\ workers = 0
    /\ batch_start = 0
    /\ futures = <<>>
    /\ task = <<>>
    /\ yielded = {}
    /\ completed = 0
    /\ total_completed = 0
    /\ batchLog = <<>>
    /\ error = ""
    /\ ret = <<>>
    /\ pii_status = "PENDING"
    /\ statusWrites = <<>>
    /\ s3Calls = <<>>
    /\ dbCalls = <<>>
    /\ called = <<>>
    /\ printed = <<>>
    /\ logged = <<>>
    /\ images = InitialImages
    /\ pii_results = <<>>
    /\ conn = Closed
    /\ db_log = <<>>
    /\ runs = <<>>
    /\ md_results \in SeqsUpTo(RawDetections, MaxDetections)
    /\ fpe_result = <<>>
    /\ other_run = NoOtherRun

ConvNext == conv_call

ConvSpec == ConvInit /\ [][ConvNext]_vars

\* ------------------------------------------------------------- vocabulary
Ended == pc \in {"returned", "raised"}

\* run() took the sequential branch
Sequential == args.workers = <<>> \/ args.workers[1] <= 0

\* the statuses update_imageset_pii_status was called with, in call order
Statuses == [k \in 1..Len(statusWrites) |-> statusWrites[k].status]
StatusCalled(st) == \E k \in 1..Len(statusWrites) : statusWrites[k].status = st
StatusCommitted(st) ==
    \E k \in 1..Len(statusWrites) :
        statusWrites[k].status = st /\ statusWrites[k].ok
NoStatusWriteFailed == \A k \in 1..Len(statusWrites) : statusWrites[k].ok
\* the most recent status update, if any, committed
LastStatusOk ==
    \A k \in 1..Len(statusWrites) : k = Len(statusWrites) => statusWrites[k].ok

SinkFailed ==
    \/ \E k \in 1..Len(s3Calls) : ~s3Calls[k].ok
    \/ \E k \in 1..Len(dbCalls) : ~dbCalls[k].ok
S3Succeeded == \E k \in 1..Len(s3Calls) : s3Calls[k].ok
DbSucceeded == \E k \in 1..Len(dbCalls) : dbCalls[k].ok

\* positions whose detect call was made / raised
Dispatched == {i \in DOMAIN called : called[i] > 0}
DetectRaised ==
    {i \in DOMAIN task : task[i] = "raised"}
        \cup (IF error = "detect" THEN {seq_idx} ELSE {})

\* tagged outcomes inside a result list
IsSuccess(r) == "detections" \in DOMAIN r
IsFailure(r) == "error" \in DOMAIN r
Count(list, P(_)) == Cardinality({k \in 1..Len(list) : P(list[k])})

\* ------------------------------------------------------------- claims
\* C1: whenever a scheduler returns its result list, the list holds one
\* outcome per image that was dispatched to detect, also when detect calls
\* raised.
C1_NoOutcomeLost == pc = "save" => Len(results) = Cardinality(Dispatched)

\* C2: when exactly one detect call among the N dispatched images raised, the
\* result list the scheduler returns holds exactly one Failure outcome, for
\* that image, and N-1 Success outcomes.
C2_FailureIsolation ==
    (pc = "save" /\ Cardinality(DetectRaised) = 1) =>
        /\ Count(results, IsFailure) = 1
        /\ \A k \in 1..Len(results) :
             IsFailure(results[k]) =>
                \E i \in DetectRaised : results[k].image_id = rows[i].id
        /\ Count(results, IsSuccess) = Cardinality(Dispatched) - 1

\* C3: a non-dry-run run in which detect calls raised while no S3, database
\* or status write failed ends with status DONE and run() returning 0, in
\* sequential and in parallel mode.
C3_PerImageFailureNotFatal ==
    (Ended /\ ~args.dry_run /\ DetectRaised # {}
       /\ ~SinkFailed /\ NoStatusWriteFailed) =>
        pii_status = "DONE" /\ ret = <<0>>

\* C4: once a detect call has raised, detect is still invoked for every other
\* fetched image before the run ends.
C4_FailureDoesNotAbort ==
    (Ended /\ DetectRaised # {}) => \A i \in DOMAIN called : called[i] >= 1

\* every batch of range(0, n_images, batch_size) was submitted and drained
\* (sequential mode: every row was iterated), and no task is outstanding
AllBatchesDrained ==
    /\ Running = {} /\ Pending = {}
    /\ IF Sequential
       THEN seq_idx = n_images /\ \A i \in DOMAIN called : called[i] = 1
       ELSE /\ batch_start \notin BatchStarts(n_images, batch_size)
            /\ \A b \in BatchStarts(n_images, batch_size) :
                 \A i \in (b + 1)..Min(b + batch_size, n_images) : Done(i)

\* C5: in a non-dry-run run, a run that returns 0 has called the status
\* update exactly twice, PROCESSING then DONE; a run that ended after a
\* failure between the image fetch and persistence (empty list, detector
\* load, scheduler) has called it exactly twice, PROCESSING then FAILED.
C5_StatusSequence ==
    ~args.dry_run =>
        /\ ret = <<0>> => Statuses = <<"PROCESSING", "DONE">>
        /\ (Ended /\ error \in {"no_images", "load_detector", "detect",
                                "range_step_zero"}) =>
              Statuses = <<"PROCESSING", "FAILED">>

C5_Witness ==
    /\ ~args.dry_run /\ pc = "returned" /\ ret = <<0>>
    /\ Statuses = <<"PROCESSING", "DONE">>
    /\ n_images >= 2

\* C6: the DONE write is made only after a non-empty fetch, with every batch
\* drained and both the S3 and the database write succeeded; once either
\* write has failed DONE is never written, and the run ends with FAILED as
\* the status it wrote.
C6_DoneOnlyAfterPersistence ==
    /\ StatusCalled("DONE") =>
          /\ n_images > 0
          /\ AllBatchesDrained
          /\ S3Succeeded /\ DbSucceeded /\ ~SinkFailed
    /\ SinkFailed =>
          /\ ~StatusCalled("DONE")
          /\ pii_status # "DONE"
          /\ Ended => Statuses = <<"PROCESSING", "FAILED">>

C6_Witness ==
    /\ pii_status = "DONE" /\ ~Sequential /\ n_images >= 3
    /\ batch_size = 2 /\ DetectRaised # {}

C8_DryRunNoSideEffects ==
    args.dry_run =>
        /\ statusWrites = <<>> /\ pii_status = "PENDING"
        /\ s3Calls = <<>> /\ dbCalls = <<>>
        /\ ret = <<0>> => printed = <<results>>

C8_Witness ==
    /\ args.dry_run /\ ret = <<0>> /\ printed = <<results>>
    /\ DetectRaised # {} /\ Len(results) >= 1

\* C9: after an empty image list was fetched in a non-dry-run run, the
\* detector is never loaded, no detect call and no S3 or database write is
\* made, DONE is never written, and the run ends with FAILED as the status
\* it wrote (committed, with run() returning 1, when that write succeeds).
C9_EmptyImageList ==
    (~args.dry_run /\ df_images = << <<>> >>) =>
        /\ detector = <<>>
        /\ Dispatched = {} /\ futures = <<>>
        /\ s3Calls = <<>> /\ dbCalls = <<>>
        /\ ~StatusCalled("DONE")
        /\ Ended =>
             /\ Statuses = <<"PROCESSING", "FAILED">>
             /\ LastStatusOk => pii_status = "FAILED" /\ ret = <<1>>

C9_Witness ==
    /\ ~args.dry_run /\ df_images = << <<>> >> /\ pc = "returned"
    /\ pii_status = "FAILED" /\ ret = <<1>>

\* C10: after the image fetch or the detector load failed in a non-dry-run
\* run, no detect call and no S3 or database write is made, DONE is never
\* written, and the run ends with FAILED as the status it wrote (committed,
\* with run() returning 1, when that write succeeds).
C10_FetchOrLoadFailure ==
    (~args.dry_run /\ error \in {"fetch_images", "load_detector"}) =>
        /\ Dispatched = {} /\ futures = <<>>
        /\ s3Calls = <<>> /\ dbCalls = <<>>
        /\ ~StatusCalled("DONE")
        /\ Ended =>
             /\ Statuses = <<"PROCESSING", "FAILED">>
             /\ LastStatusOk => pii_status = "FAILED" /\ ret = <<1>>

C10_Witness ==
    /\ ~args.dry_run /\ error = "load_detector" /\ n_images >= 1
    /\ pc = "returned" /\ pii_status = "FAILED" /\ ret = <<1>>

C12_ReturnsZeroOrOne ==
    Ended =>
        /\ pc = "returned"
        /\ ret = <<0>> \/ ret = <<1>>
        /\ ret = <<0>> <=> error = ""

\* C13: in sequential mode (workers unset or <= 0) no pool task ever exists,
\* detect has been called exactly once for each of the first seq_idx rows
\* and for no later row, and the k-th result belongs to the k-th row.
C13_SequentialInOrder ==
    Sequential =>
        /\ Running = {} /\ Pending = {} /\ futures = <<>>
        /\ \A i \in DOMAIN called :
             called[i] = IF i <= seq_idx THEN 1 ELSE 0
        /\ Len(results) <= seq_idx
        /\ \A k \in 1..Len(results) :
             /\ results[k].image_id = rows[k].id
             /\ results[k].file = basename(s3_filename(rows[k]))
        /\ pc = "save" => Len(results) = n_images

C13_Witness ==
    /\ Sequential /\ pc = "save" /\ n_images >= 3
    /\ Len(results) = n_images
    /\ args.workers = <<-1>>

\* C19: a non-dry-run run whose scheduler returned has called both the S3
\* write and the database write when it ends, also when one of them failed.
C19_BothSinksAttempted ==
    (Ended /\ ~args.dry_run /\ s3Calls # <<>>) => dbCalls # <<>>

\* the run is in parallel mode with a batch size of at least 1
ParallelBatched == ~Sequential /\ args.batch_size >= 1

CeilDiv(a, b) == (a + b - 1) \div b

\* the row positions first..last, in order
Consecutive(first, last) == [k \in 1..(last - first + 1) |-> first + k - 1]

\* the k-th batch of n rows cut into batches of b
ExpectedBatch(k, n, b) == Consecutive((k - 1) * b + 1, Min(k * b, n))

IsPrefix(a, b) == Len(a) <= Len(b) /\ \A k \in 1..Len(a) : a[k] = b[k]

\* tasks submitted to the pool and not yet completed
Outstanding == Pending \cup Running

\* C14: in parallel mode with B >= 1 the batches are the consecutive slices
\* of min(B, N) rows of the image list, in order (so disjoint, each of size
\* <= min(B, N), only the last one possibly smaller), and when the scheduler
\* returns there are ceil(N / min(B, N)) of them, covering every row.
C14_BatchPartition ==
    ParallelBatched =>
        LET b == Min(args.batch_size, n_images)
        IN  /\ \A k \in 1..Len(batchLog) :
                 batchLog[k] = ExpectedBatch(k, n_images, b)
            /\ pc \in {"submit", "collect"} =>
                 IsPrefix(futures,
                          ExpectedBatch(Len(batchLog) + 1, n_images, b))
            /\ pc = "collect" =>
                 futures = ExpectedBatch(Len(batchLog) + 1, n_images, b)
            /\ pc = "save" =>
                 /\ Len(batchLog) = CeilDiv(n_images, b)
                 /\ \A i \in 1..n_images :
                      \E k \in 1..Len(batchLog) :
                         \E j \in 1..Len(batchLog[k]) : batchLog[k][j] = i

C14_Witness ==
    /\ ParallelBatched /\ pc = "save"
    /\ n_images = 5 /\ args.batch_size = 2
    /\ batchLog = << <<1, 2>>, <<3, 4>>, <<5>> >>

\* C15 (as stated): in parallel mode the number of tasks submitted and not
\* yet completed never exceeds min(W, B, N).
C15_OutstandingAtMostMinWBN ==
    ParallelBatched =>
        Cardinality(Outstanding)
            <= Min(args.workers[1], Min(args.batch_size, n_images))

\* C15 (amended): in parallel mode the number of tasks submitted and not yet
\* completed never exceeds min(B, N), and the number of tasks executing
\* never exceeds min(W, B, N).
C15_OutstandingAtMostBatch ==
    ParallelBatched =>
        /\ Cardinality(Outstanding) <= Min(args.batch_size, n_images)
        /\ Cardinality(Running)
             <= Min(args.workers[1], Min(args.batch_size, n_images))

C15_Witness ==
    /\ ParallelBatched /\ args.workers = <<1>> /\ args.batch_size = 3
    /\ Cardinality(Outstanding) = 3 /\ Cardinality(Running) = 1

\* C16: the run terminates in every execution, also in one in which a detect
\* call never returns: the overdue task's outcome is forced to a Failure and
\* the coordinator goes on with the rest of the batch and of the run.
C16_RunTerminates == <>Ended

\* the pii_* columns a row of `rows` stores
StoredOf(r) == [pii_animal |-> r.pii_animal, pii_person |-> r.pii_person,
                pii_vehicle |-> r.pii_vehicle,
                pii_detections |-> r.pii_detections]

\* C17: a call of save_results_to_database that follows a successful call
\* with the identical, non-empty result list, and that no loss of the
\* connection interrupts, succeeds too and leaves the image rows as the
\* first call left them.
C17_SecondCallIdempotent ==
    \A k \in 2..Len(db_log) :
        (/\ db_log[k - 1].ok
         /\ db_log[k].data = db_log[k - 1].data
         /\ db_log[k].data # <<>>
         /\ db_log[k].cause # "connection")
        => /\ db_log[k].ok
           /\ db_log[k].after = db_log[k - 1].after

\* C18: save_results_to_database is all-or-nothing. While a call is under
\* way the committed image rows are those the call found; a call that raised
\* left them as it found them; a call that returned committed every row of
\* its result list.
C18_AllOrNothing ==
    /\ conn # Closed => images = conn.before
    /\ \A k \in 1..Len(db_log) :
         IF db_log[k].ok
         THEN \A r \in RowSet(db_rows(db_log[k].data)) :
                 db_log[k].after[r.image_id] = StoredOf(r)
         ELSE db_log[k].after = db_log[k].before

\* a call with two rows raised at conn.commit(), after the UPDATE had been
\* executed, and the image rows are still as the call found them
C18_Witness ==
    /\ Len(db_log) = 1
    /\ ~db_log[1].ok
    /\ db_log[1].at = "updated"
    /\ Len(db_log[1].data) = 2
    /\ images = InitialImages
    /\ JoinUpdate(images, RowSet(db_rows(db_log[1].data))) # images

\* the re-run met the images of the earlier run and the detector did on each
\* image it was given what it did in the earlier run
SameImagesSameDetector ==
    /\ df_images # <<>>
    /\ n_images = runs[1].n
    /\ DetectRaised = runs[1].raised \cap Dispatched

\* C20: a re-run on an imageset whose status is DONE and of which the
\* earlier run stored at least one image, with the same images, a detector
\* that does on every image what it did before, and every database, storage
\* and model-loading operation succeeding, ends with the status DONE and
\* with every image row as the earlier run left it.
C20_RerunIsNoOp ==
    (/\ runs # <<>>
     /\ runs[1].images # InitialImages
     /\ Ended
     /\ SameImagesSameDetector
     /\ error \in {"", "detect"}
     /\ NoStatusWriteFailed)
    => /\ pii_status = "DONE"
       /\ images = runs[1].images

\* C21: a run that detected every image and then failed at persistence, and
\* ended with the status FAILED, has logged a record that carries the number of results.
C21_FailureReportsCount ==
    (/\ Ended
     /\ pii_status = "FAILED"
     /\ error \in {"save_s3", "save_db", "status_DONE"}
     /\ Len(results) = n_images)
    => \E k \in 1..Len(logged) :
           /\ "n_images" \in DOMAIN logged[k]
           /\ logged[k].n_images = Len(results)

\* every class id of the detector output is a class of CLASS_NAMES
KnownClasses ==
    \A k \in 1..Len(md_results) : md_results[k].class_id \in DOMAIN CLASS_NAMES

\* the confidences of the detections of class c
ConfsOf(c) ==
    {md_results[k].confidence :
        k \in {j \in 1..Len(md_results) : md_results[j].class_id = c}}

\* the result carries one entry per raw detection, in input order, with the
\* input's category and confidence, and max_conf is the per-category maximum,
\* 0 without a detection
ConvertedShape(out) ==
    /\ Len(out.detections) = Len(md_results)
    /\ \A k \in 1..Len(md_results) :
         /\ out.detections[k].category = md_results[k].class_id
         /\ out.detections[k].conf = md_results[k].confidence
    /\ DOMAIN out.max_conf = {"animal", "person", "vehicle"}
    /\ \A c \in DOMAIN CLASS_NAMES :
         LET m == out.max_conf[CLASS_NAMES[c]]
         IN  /\ m \in ConfsOf(c) \cup {0}
             /\ \A x \in ConfsOf(c) \cup {0} : m >= x

\* C22 as stated: the conversion returns n entries in input order with the
\* input's category, confidence and bbox, and the per-category maxima.
C22_ConvertKeepsBbox ==
    (fpe_result # <<>> /\ KnownClasses)
    => /\ fpe_result[1].ok
       /\ ConvertedShape(fpe_result[1].value)
       /\ \A k \in 1..Len(md_results) :
            fpe_result[1].value.detections[k].bbox = md_results[k].xyxy

\* C22 amended: as above, but each bbox coordinate is the input's coordinate
\* with its fraction dropped (astype(int)), and the conversion returns only
\* when every class id is 0, 1 or 2; it raises otherwise.
C22_ConvertTruncatesBbox ==
    fpe_result # <<>>
    => IF KnownClasses
       THEN /\ fpe_result[1].ok
            /\ ConvertedShape(fpe_result[1].value)
            /\ \A k \in 1..Len(md_results) : \A j \in 1..4 :
                 LET b == fpe_result[1].value.detections[k].bbox[j]
                     x == md_results[k].xyxy[j]
                 IN  b % 10 = 0 /\ b <= x /\ x < b + 10
       ELSE ~fpe_result[1].ok

\* two detections of one category, the stronger first, one box with
\* fractional coordinates, converted
C22_Witness ==
    /\ Len(md_results) = 2
    /\ md_results[1].class_id = 1 /\ md_results[2].class_id = 1
    /\ md_results[1].confidence = 90 /\ md_results[2].confidence = 10
    /\ md_results[1].xyxy = <<105, 209, 300, 417>>
    /\ fpe_result # <<>>
    /\ fpe_result[1].ok
    /\ fpe_result[1].value.max_conf.person = 90
    /\ fpe_result[1].value.detections[1].bbox = <<100, 200, 300, 410>>

\* C23: in a run that is not a dry run, every fetch of the image list, every
\* load of the detector and every start of a detect call is a step from a
\* state in which the PROCESSING write has been made and has succeeded.
C23_ProcessingBeforeWork ==
    [][(/\ ~args.dry_run
        /\ \/ run_fetch_images
           \/ run_load_detector
           \/ seq_iter
           \/ \E i \in DOMAIN task : worker_start(i))
       => (/\ statusWrites # <<>>
           /\ statusWrites[1] = [status |-> "PROCESSING", ok |-> TRUE])]_vars

\* detect calls have started in a run that is not a dry run
C23_Witness ==
    /\ ~args.dry_run
    /\ pc = "collect"
    /\ Cardinality(Dispatched) >= 2
    /\ StatusCommitted("PROCESSING")

\* the position in the image list of the row with this id
PositionOf(id) == CHOOSE i \in 1..n_images : rows[i].id = id

\* the batch (counted from 0) of the row at position i, for batch size b
BatchOf(i, b) == (i - 1) \div b

\* C24: in parallel mode with B >= 1, a task that has been submitted or
\* started finds every task of every earlier batch returned or raised, and
\* in the result list no result of a later batch stands before a result of
\* an earlier batch.
C24_CrossBatchOrder ==
    ParallelBatched =>
        LET b == Min(args.batch_size, n_images)
        IN  /\ \A i, j \in DOMAIN task :
                 (BatchOf(i, b) < BatchOf(j, b) /\ task[j] # "none")
                     => Done(i)
            /\ \A p, q \in 1..Len(results) :
                 p < q => BatchOf(PositionOf(results[p].image_id), b)
                            <= BatchOf(PositionOf(results[q].image_id), b)

\* two batches of two images, each collected in the reverse of the
\* submission order
C24_Witness ==
    /\ ParallelBatched /\ pc = "save"
    /\ n_images = 4 /\ args.batch_size = 2
    /\ Len(results) = 4
    /\ [k \in 1..4 |-> results[k].image_id]
         = <<Row(2).id, Row(1).id, Row(4).id, Row(3).id>>

\* C25: in parallel mode the detect calls under way are never more than
\* min(worker count, number of images), and all of them belong to the one
\* batch whose pool is open.
C25_RunningAtMostWorkers ==
    ~Sequential =>
        /\ Cardinality(Running) <= Min(args.workers[1], n_images)
        /\ \A i \in Running :
             /\ pc = "submit" \/ pc = "collect"
             /\ \E k \in 1..Len(futures) : futures[k] = i

\* five images in batches of three with two workers: in the second batch
\* two calls are under way at once
C25_Witness ==
    /\ args.workers = <<2>> /\ args.batch_size = 3
    /\ n_images = 5
    /\ Len(batchLog) = 1
    /\ Running = {4, 5}

\* C26: each of save_results_to_s3 and save_results_to_database is called at
\* most once in a run, in a state where every batch has drained and no
\* detect call is outstanding (nor is one from then on), and both are handed
\* the whole result list the scheduler returned.
C26_SinksOnceAndWhole ==
    /\ Len(s3Calls) <= 1
    /\ Len(dbCalls) <= 1
    /\ dbCalls # <<>> => s3Calls # <<>>
    /\ s3Calls # <<>> =>
          /\ AllBatchesDrained
          /\ pc \in {"save_db", "set_done", "except", "returned", "raised"}
          /\ s3Calls[1].data = results
          /\ Len(results) = Cardinality(Dispatched \ DetectRaised)
    /\ dbCalls # <<>> => dbCalls[1].data = s3Calls[1].data

\* a parallel run of two batches has handed its four results to both sinks
C26_Witness ==
    /\ ParallelBatched /\ Len(batchLog) = 2
    /\ Len(results) = 4
    /\ Len(s3Calls) = 1 /\ Len(dbCalls) = 1
    /\ dbCalls[1].data = results
    /\ pc = "returned"

\* C27: in a run that ended after detection had begun, in sequential mode or
\* in parallel mode with B >= 1, detect was called exactly once for every
\* row of the fetched image list, and the results carry the ids of distinct
\* fetched rows.
C27_EveryImageOnce ==
    (/\ Ended
     /\ Dispatched # {}
     /\ Sequential \/ args.batch_size >= 1)
    => /\ \A i \in 1..n_images : called[i] = 1
       /\ \A p \in 1..Len(results) :
            \E i \in 1..n_images : results[p].image_id = rows[i].id
       /\ \A p, q \in 1..Len(results) :
            p # q => results[p].image_id # results[q].image_id

\* C28: every result of the result list belongs to a task of its own whose
\* detect call returned, and carries the id of the row given to that task
\* and the base name of that row's key, whatever the order of completion.
C28_ResultsCarryIdAndFile ==
    /\ \A p \in 1..Len(results) :
         \E i \in Dispatched \ DetectRaised :
            /\ results[p].image_id = rows[i].id
            /\ results[p].file = basename(rows[i].full_s3.Key)
    /\ \A p, q \in 1..Len(results) :
         p # q => results[p].image_id # results[q].image_id

\* the second task of a batch of two was collected before the first
C28_Witness ==
    /\ ~Sequential
    /\ Len(results) = 2
    /\ results[1].image_id = Row(2).id
    /\ results[1].file = basename(Row(2).full_s3.Key)
    /\ results[2].image_id = Row(1).id
    /\ results[2].file = basename(Row(1).full_s3.Key)

\* C29: a status write that raises, the only one of the run to do so, does
\* not change the course of the run.
\* After a failed PROCESSING write the run still fetches the image list, and
\* after a failed DONE write the run still returns 0 and writes no FAILED.
C29_StatusWriteFailureNotFatal ==
    Ended =>
        \A k \in 1..Len(statusWrites) :
            (/\ ~statusWrites[k].ok
             /\ \A j \in 1..Len(statusWrites) : j # k => statusWrites[j].ok)
            =>  /\ statusWrites[k].status = "PROCESSING" =>
                      (df_images # <<>>
                          \/ error \in {"fetch_images", "no_images"})
                /\ statusWrites[k].status = "DONE" =>
                      (ret = <<0>> /\ ~StatusCalled("FAILED"))

C32_OneTerminalWrite ==
    /\ ~(StatusCommitted("DONE") /\ StatusCommitted("FAILED"))
    /\ \A k \in 1..Len(statusWrites) :
         (statusWrites[k].status = "DONE" /\ statusWrites[k].ok)
             => k = Len(statusWrites)
    /\ Cardinality({k \in 1..Len(statusWrites) :
                       statusWrites[k].status = "FAILED"}) <= 1

\* the DONE write raised and the FAILED write that followed succeeded
C32_Witness ==
    /\ Ended
    /\ statusWrites = <<[status |-> "PROCESSING", ok |-> TRUE],
                        [status |-> "DONE", ok |-> FALSE],
                        [status |-> "FAILED", ok |-> TRUE]>>
    /\ pii_status = "FAILED"

\* C33: a run that took the parallel branch, whatever the batch size given
\* on the command line (zero and negative values included), and that ended
\* with the status DONE has dispatched every fetched image to detect exactly
\* once.
C33_DoneMeansEveryImageDispatched ==
    (/\ Ended
     /\ ~Sequential
     /\ StatusCommitted("DONE"))
    => \A i \in 1..n_images : called[i] = 1

\* C34: a call of save_results_to_database leaves every image row whose id
\* is not the image_id of an element of the call's result list as the call
\* found it.
C34_OnlyResultRowsChange ==
    \A k \in 1..Len(db_log) :
        \A id \in ImageIds :
            (\A r \in RowSet(db_rows(db_log[k].data)) : r.image_id # id)
                => db_log[k].after[id] = db_log[k].before[id]

\* the last call of update_imageset_pii_status that committed, over both
\* processes: <<>> when none did, else <<status>>. A call of the second
\* process made at `at` follows the first `at` calls of the first process.
LastCommitted ==
    LET mine == {k \in 1..Len(statusWrites) : statusWrites[k].ok}
        theirs == {j \in 1..Len(other_run.writes) : other_run.writes[j].ok}
        k1 == IF mine = {} THEN 0
              ELSE CHOOSE k \in mine : \A l \in mine : l <= k
        j2 == IF theirs = {} THEN 0
              ELSE CHOOSE j \in theirs : \A l \in theirs : l <= j
    IN  IF k1 = 0 /\ j2 = 0 THEN <<>>
        ELSE IF j2 # 0 /\ other_run.writes[j2].at >= k1
             THEN <<other_run.writes[j2].status>>
             ELSE <<statusWrites[k1].status>>

\* both processes are between their PROCESSING write and their saves
BothDetecting ==
    /\ pc = "sequence"
    /\ other_run.pc = "detect"

\* C31: two runs on the same imageset are not kept apart. The persisted
\* status is always the one of the last status update that committed,
\* whichever process made it and whatever the status was before, so also
\* when a PROCESSING update follows the other run's DONE or FAILED.
C31_LastWriterWins ==
    pii_status = IF LastCommitted = <<>> THEN "PENDING" ELSE LastCommitted[1]

\* both runs have committed PROCESSING and are in their detection phase at
\* the same moment
C31_Witness ==
    /\ BothDetecting
    /\ StatusCommitted("PROCESSING")
    /\ other_run.writes = <<[status |-> "PROCESSING", ok |-> TRUE, at |-> 1]>>
    /\ pii_status = "PROCESSING"
====
